---- MODULE Spec2Model ----
(***************************************************************************)
(* Model of the conversion orchestration of the PPT viewer:                *)
(*   src/src/libreoffice-converter.ts  (LibreOfficeConverter)              *)
(*   src/src/ppt-editor-provider.ts    (PPTEditorProvider)                 *)
(*                                                                         *)
(* A call spawns child processes (availability probe, PDF conversion,     *)
(* image conversion).  Each spawn registers event callbacks and a timer   *)
(* that is never cleared; every callback calls resolve/reject of the       *)
(* promise of its spawn, and a promise keeps the first settlement.        *)
(* The child processes, the clock and the file system are the              *)
(* environment.                                                            *)
(***************************************************************************)
EXTENDS Integers, Sequences, FiniteSets, TLC

(* ---------------------------- bounds ---------------------------------- *)

\* file modification times are 0..MaxTime
MaxTime == 2
\* number of stderr chunks one conversion process writes at most
MaxStderr == 2

(* --------------------------- constants -------------------------------- *)

NoFile == -1
\* exit code reported by 'close' for a child that was ended by a signal (null)
NullCode == -1
\* exit code reported by 'close' after a failed spawn (negative errno)
SpawnErrCode == -2
NoCode == -3

ExitCodes == {0, 1, NullCode}
Chunks == {"x"}

Req == {1, 2}
Slots == {"check", "gate", "conv", "img"}
Kinds == {"pdf", "images", "load"}

(* ------------------------ paths and files ----------------------------- *)

\* a file name is a sequence of tokens, the last one being its extension
DotTokens == {".pptx", ".pdf", ".png"}

Last(s) == s[Len(s)]

\* path.extname: the part of the name from its last dot, "" when there is none
extname(name) ==
    IF Len(name) > 1 /\ Last(name) \in DotTokens THEN Last(name) ELSE ""

\* path.basename(p, ext): the name with the suffix ext removed
basename(name, ext) ==
    IF ext # "" /\ Len(name) > 1 /\ Last(name) = ext
    THEN SubSeq(name, 1, Len(name) - 1)
    ELSE name

\* path.join(os.tmpdir(), 'muty-pptviewer')
tempDir == "tmp"

Path(d, n) == [dir |-> d, name |-> n]

\* const fileName = path.basename(pptPath, path.extname(pptPath))
fileName(pptPath) == basename(pptPath.name, extname(pptPath.name))

\* const pdfPath = path.join(tempDir, `${fileName}.pdf`)
pdfPath(pptPath) == Path(tempDir, fileName(pptPath) \o <<".pdf">>)

SrcPaths == {Path("a", <<"deck", ".pptx">>), Path("b", <<"deck", ".pptx">>)}
PdfPaths == {pdfPath(p) : p \in SrcPaths}
PngPaths == {Path(tempDir, <<"deck", "1", ".png">>),
             Path(tempDir, <<"deck", ".png">>),
             Path(tempDir, <<"other", ".png">>)}

(* ------------------------- promises, errors --------------------------- *)

Pending == [k |-> "pending"]
\* resolve(code === 0) / resolve(false) of the probe
ResolvedBool(b) == [k |-> "resolved", b |-> b]
\* resolve(pdfPath)
ResolvedPath(p) == [k |-> "resolved", path |-> p]
\* resolve(imageFiles)
ResolvedList(l) == [k |-> "resolved", list |-> l]
Rejected(e) == [k |-> "rejected", e |-> e]

Err(t) == [type |-> t, code |-> NoCode, text |-> <<>>]
ErrExit(t, c, txt) == [type |-> t, code |-> c, text |-> txt]

\* a promise that takes every settlement, the last one winning
SettleLast(p, outcome) == outcome

\* resolve()/reject() of a promise: only the first settlement counts
Settle(p, outcome) == IF p.k = "pending" THEN outcome ELSE p

(* ------------------------------ state --------------------------------- *)

VARIABLES
    now,        \* the clock that stamps modification times
    files,      \* modification time of every source and PDF file, or NoFile
    pngs,       \* the PNG files present in the scratch directory
    dirExists,  \* the scratch directory exists
    kind,       \* entry point of call r: convertToPDF, convertToImages, _loadPPT
    src,        \* pptPath of call r
    pc,         \* the await at which call r is suspended
    proc,       \* child process and timer of every spawn of call r
    prom,       \* the promise created around every spawn of call r
    pdfResult,  \* settlement of convertToPDF of call r
    result,     \* settlement of the entry point of call r
    posted,     \* messages posted to the webview by call r
    spawnLog,   \* the spawns of call r in their order, as a spy on spawn() sees them
    cmd,        \* the inbound message that started load r
    prompt,     \* the webview shows the installation prompt with its retry button
    quiet,      \* a load has ended not-installed or failed, and no message came in since
    loaded,     \* history: the version (mtime) of pptPath that the converter of a call opened
    origin      \* history: the source, and the version of it, that a PDF was made from

vars == <<now, files, pngs, dirExists, kind, src, pc, proc, prom, pdfResult,
          result, posted, spawnLog, cmd, prompt, quiet, loaded, origin>>

fsVars == <<now, files, pngs, dirExists, origin>>
sessVars == <<cmd, prompt, quiet>>
callVars == <<kind, src, pc, pdfResult, result, posted, spawnLog, sessVars, loaded>>

NoProc == [st |-> "none", code |-> NoCode, sig |-> FALSE, timer |-> "unset",
           stderr |-> <<>>, read |-> 0, errorOutput |-> <<>>]

NoSrc == Path("", <<>>)

\* a PDF that no conversion of these calls has written
NoOrigin == [src |-> NoSrc, ver |-> NoFile]

\* The history variables record the calls and the PDFs of their domains, which
\* the initial state fixes: f with v recorded for x
Record(f, x, v) == IF x \in DOMAIN f THEN [f EXCEPT ![x] = v] ELSE f

\* the calls and the source files of the single-call specification
SpecReq == {1}
SpecSrc == {Path("a", <<"deck", ".pptx">>)}

FilePaths == SrcPaths \cup PdfPaths

SetProc(r, s, p) == proc' = [proc EXCEPT ![r][s] = p]
\* const process = spawn(libreOfficePath, args, { stdio: 'pipe' })
Spawn(r, s, p) ==
    /\ proc' = [proc EXCEPT ![r][s] = p]
    /\ spawnLog' = [spawnLog EXCEPT ![r] = Append(@, s)]
SetProm(r, s, p) == prom' = [prom EXCEPT ![r][s] = p]

\* fs.existsSync
existsSync(p) == files[p] # NoFile

Init ==
    /\ now = 0
    /\ files \in [FilePaths -> {NoFile, 0}]
    /\ \A p \in SrcPaths \ SpecSrc : files[p] = NoFile
    /\ dirExists \in BOOLEAN
    /\ (\E p \in PdfPaths : files[p] # NoFile) => dirExists
    /\ pngs = {}
    /\ kind = [r \in Req |-> "none"]
    /\ src = [r \in Req |-> NoSrc]
    /\ pc = [r \in Req |-> "idle"]
    /\ proc = [r \in Req |-> [s \in Slots |-> NoProc]]
    /\ prom = [r \in Req |-> [s \in Slots |-> Pending]]
    /\ pdfResult = [r \in Req |-> Pending]
    /\ result = [r \in Req |-> Pending]
    /\ posted = [r \in Req |-> <<>>]
    /\ spawnLog = [r \in Req |-> <<>>]
    /\ cmd = [r \in Req |-> "none"]
    /\ prompt = FALSE
    /\ quiet = FALSE
    /\ loaded = [r \in {} |-> NoFile]
    /\ origin = [p \in {} |-> NoOrigin]

(* --------------------------- environment ------------------------------ *)

\* time passes
Tick ==
    /\ now < MaxTime
    /\ now' = now + 1
    /\ UNCHANGED <<files, pngs, dirExists, origin, callVars, proc, prom>>

\* the user saves the presentation
TouchSource(p) ==
    /\ files[p] # now
    /\ files' = [files EXCEPT ![p] = now]
    /\ UNCHANGED <<now, pngs, dirExists, origin, callVars, proc, prom>>

\* a conversion outside this call leaves a PDF in the scratch directory
ExternalWritePdf(p) ==
    /\ files[p] # now
    /\ files' = [files EXCEPT ![p] = now]
    /\ origin' = Record(origin, p, NoOrigin)
    /\ dirExists' = TRUE
    /\ UNCHANGED <<now, pngs, callVars, proc, prom>>

\* the system's temp cleaner removes a PDF
RemovePdf(p) ==
    /\ files[p] # NoFile
    /\ files' = [files EXCEPT ![p] = NoFile]
    /\ origin' = Record(origin, p, NoOrigin)
    /\ UNCHANGED <<now, pngs, dirExists, callVars, proc, prom>>

\* a running child ends: with an exit code, or by a signal (NullCode)
ProcExit(r, s, c) ==
    /\ proc[r][s].st = "running"
    /\ SetProc(r, s, [proc[r][s] EXCEPT !.st = "exited", !.code = c])
    /\ UNCHANGED <<fsVars, callVars, prom>>

\* a running conversion child writes to its standard error
ProcStderr(r, s, ch) ==
    /\ s \in {"conv", "img"}
    /\ proc[r][s].st = "running"
    /\ Len(proc[r][s].stderr) < MaxStderr
    /\ SetProc(r, s, [proc[r][s] EXCEPT !.stderr = Append(@, ch)])
    /\ UNCHANGED <<fsVars, callVars, prom>>

\* soffice --convert-to pdf --outdir tempDir pptPath writes <basename>.pdf,
\* made from the version of pptPath that it has opened
ProcWritePdf(r) ==
    /\ proc[r]["conv"].st = "running"
    /\ files[pdfPath(src[r])] # now
    /\ files' = [files EXCEPT ![pdfPath(src[r])] = now]
    /\ origin' = Record(origin, pdfPath(src[r]),
                        [src |-> src[r],
                         ver |-> IF r \in DOMAIN loaded THEN loaded[r] ELSE NoFile])
    /\ dirExists' = TRUE
    /\ UNCHANGED <<now, pngs, callVars, proc, prom>>

\* while soffice --convert-to png --outdir tempDir pdfPath runs, PNG files appear
\* in the scratch directory: its pages, or those of a conversion of another file
ProcWritePng(r, p) ==
    /\ proc[r]["img"].st = "running"
    /\ p \notin pngs
    /\ pngs' = pngs \cup {p}
    /\ dirExists' = TRUE
    /\ UNCHANGED <<now, files, origin, callVars, proc, prom>>

(* ---------------------------- event loop ------------------------------ *)

\* the continuation of an await runs as soon as the awaited promise has settled
Awaited(p) == p.k # "pending"

\* call r has a continuation ready to run
Ready(r) ==
    \/ pc[r] \in Slots /\ Awaited(prom[r][pc[r]])
    \/ pc[r] = "pdfret"

\* callbacks of events and timers run only when no continuation is ready
LoopIdle == \A r \in Req : ~Ready(r)

\* the timers of a call are set in the order check (5000), gate (5000),
\* conv (30000), img (30000) and expire in that order
Earlier(s) ==
    CASE s = "check" -> {}
      [] s = "gate"  -> {"check"}
      [] s = "conv"  -> {"check", "gate"}
      [] s = "img"   -> {"check", "gate", "conv"}

TimerDue(r, s) ==
    /\ proc[r][s].timer = "pending"
    /\ \A e \in Earlier(s) : proc[r][e].timer # "pending"

\* spawn(...) followed by setTimeout(...): the child runs, or the spawn fails
\* and an 'error' event is queued
spawn(ok) ==
    [NoProc EXCEPT !.st = IF ok THEN "running" ELSE "failed", !.timer = "pending"]

\* a kill by process id, which signals whatever the state of the child
killAlways(p) == [p EXCEPT !.sig = TRUE]

\* process.kill(): signals the child unless it has ended
kill(p) == IF p.st = "running" THEN [p EXCEPT !.sig = TRUE] ELSE p

(* ------------------ checkLibreOfficeInstallation ---------------------- *)

ProbeSlots == {"check", "gate"}

\* process.on('error', () => resolve(false))
ProbeErrorResult == ResolvedBool(FALSE)

\* resolve(code !== null): any exit code counts as installed
ProbeCloseResultAnyCode(code) == ResolvedBool(code # NullCode)

\* process.on('close', (code) => resolve(code === 0))
ProbeCloseResult(code) == ResolvedBool(code = 0)

\* a probe timeout that forgets process.kill()
ProbeTimeoutNoKill(p) == [p EXCEPT !.timer = "fired"]

\* setTimeout(() => { process.kill(); resolve(false); }, 5000)
ProbeTimeoutProc(p) == [kill(p) EXCEPT !.timer = "fired"]
ProbeTimeoutResult == ResolvedBool(FALSE)

ProbeOnError(r, s) ==
    /\ LoopIdle
    /\ s \in ProbeSlots
    /\ proc[r][s].st = "failed"
    /\ SetProc(r, s, [proc[r][s] EXCEPT !.st = "errored", !.code = SpawnErrCode])
    /\ SetProm(r, s, Settle(prom[r][s], ProbeErrorResult))
    /\ UNCHANGED <<fsVars, callVars>>

ProbeOnClose(r, s) ==
    /\ LoopIdle
    /\ s \in ProbeSlots
    /\ proc[r][s].st \in {"exited", "errored"}
    /\ SetProc(r, s, [proc[r][s] EXCEPT !.st = "closed"])
    /\ SetProm(r, s, Settle(prom[r][s], ProbeCloseResult(proc[r][s].code)))
    /\ UNCHANGED <<fsVars, callVars>>

ProbeOnTimeout(r, s) ==
    /\ LoopIdle
    /\ s \in ProbeSlots
    /\ TimerDue(r, s)
    /\ SetProc(r, s, ProbeTimeoutProc(proc[r][s]))
    /\ SetProm(r, s, Settle(prom[r][s], ProbeTimeoutResult))
    /\ UNCHANGED <<fsVars, callVars>>

\* the value of `await this.checkLibreOfficeInstallation()`
\* (the promise object itself, were it not awaited, is truthy)
isInstalled(p) == IF p.k = "resolved" THEN p.b ELSE TRUE

\* the probe called without await
GateReadyNoAwait(p) == TRUE

\* const isInstalled = await this.checkLibreOfficeInstallation(): convertToPDF
\* goes on once the probe has settled
GateReady(p) == Awaited(p)

(* --------------------------- convertToPDF ----------------------------- *)

\* the comparison turned round: pdfStats.mtime < pptStats.mtime
CacheValidReversed(pdfMtime, pptMtime) == pdfMtime < pptMtime

\* the cache check left out
CacheValidNever(pdfMtime, pptMtime) == FALSE

\* the comparison made non-strict: pdfStats.mtime >= pptStats.mtime
CacheValidNonStrict(pdfMtime, pptMtime) == pdfMtime >= pptMtime

\* if (pdfStats.mtime > pptStats.mtime)
CacheValid(pdfMtime, pptMtime) == pdfMtime > pptMtime

\* convertToPDF without the check of isInstalled
GateOutcomeNoGate(installed, pdfMtime, pptMtime, pdf) ==
    IF pdfMtime = NoFile THEN Pending
    ELSE IF pptMtime = NoFile THEN Rejected(Err("FsError"))
    ELSE IF CacheValid(pdfMtime, pptMtime) THEN ResolvedPath(pdf)
    ELSE Pending

\* the part of convertToPDF between the probe and the spawn: what the call
\* settles to, or Pending when it goes on to spawn the converter
GateOutcome(installed, pdfMtime, pptMtime, pdf) ==
    IF ~installed THEN Rejected(Err("NotInstalled"))
    ELSE IF pdfMtime = NoFile THEN Pending
    ELSE IF pptMtime = NoFile THEN Rejected(Err("FsError"))
    ELSE IF CacheValid(pdfMtime, pptMtime) THEN ResolvedPath(pdf)
    ELSE Pending

\* convertToPDF resumes after the probe; the converter it spawns opens pptPath
\* as it starts
ContGate(r) ==
    /\ pc[r] = "gate"
    /\ GateReady(prom[r]["gate"])
    /\ LET installed == isInstalled(prom[r]["gate"])
           pdf == pdfPath(src[r])
           out == GateOutcome(installed, files[pdf], files[src[r]], pdf)
       IN /\ dirExists' = (dirExists \/ installed)
          /\ IF out = Pending
             THEN /\ \E ok \in BOOLEAN : Spawn(r, "conv", spawn(ok))
                  /\ loaded' = Record(loaded, r, files[src[r]])
                  /\ pc' = [pc EXCEPT ![r] = "conv"]
                  /\ UNCHANGED pdfResult
             ELSE /\ pdfResult' = [pdfResult EXCEPT ![r] = out]
                  /\ pc' = [pc EXCEPT ![r] = "pdfret"]
                  /\ UNCHANGED <<proc, spawnLog, loaded>>
    /\ UNCHANGED <<now, files, pngs, origin, kind, src, prom, result, posted, sessVars>>

\* errorOutput = data.toString(): each chunk replaces the text
OnDataOverwrite(p) ==
    [p EXCEPT !.errorOutput = <<p.stderr[p.read + 1]>>, !.read = @ + 1]

\* process.stderr.on('data', (data) => { errorOutput += data.toString(); })
OnData(p) ==
    [p EXCEPT !.errorOutput = Append(@, p.stderr[p.read + 1]), !.read = @ + 1]

ConvOnData(r) ==
    /\ LoopIdle
    /\ proc[r]["conv"].read < Len(proc[r]["conv"].stderr)
    /\ SetProc(r, "conv", OnData(proc[r]["conv"]))
    /\ UNCHANGED <<fsVars, callVars, prom>>

\* process.on('error', (error) => reject(new Error(`Failed to start ...`)))
ConvErrorResult == Rejected(Err("SpawnFailure"))

ConvOnError(r) ==
    /\ LoopIdle
    /\ proc[r]["conv"].st = "failed"
    /\ SetProc(r, "conv", [proc[r]["conv"] EXCEPT !.st = "errored", !.code = SpawnErrCode])
    /\ SetProm(r, "conv", Settle(prom[r]["conv"], ConvErrorResult))
    /\ UNCHANGED <<fsVars, callVars>>

\* a close handler that trusts exit code zero without looking for the file
ConvCloseResultNoCheck(code, pdfExists, pdf, errorOutput) ==
    IF code = 0
    THEN ResolvedPath(pdf)
    ELSE Rejected(ErrExit("NonZeroExit", code, errorOutput))

\* process.on('close', (code) => { ... })
ConvCloseResult(code, pdfExists, pdf, errorOutput) ==
    IF code = 0
    THEN IF pdfExists THEN ResolvedPath(pdf) ELSE Rejected(Err("OutputMissing"))
    ELSE Rejected(ErrExit("NonZeroExit", code, errorOutput))

\* 'close' is emitted once the child has ended and its stdio streams are closed
CanClose(p) == p.st \in {"exited", "errored"} /\ p.read = Len(p.stderr)

ConvOnClose(r) ==
    /\ LoopIdle
    /\ CanClose(proc[r]["conv"])
    /\ SetProc(r, "conv", [proc[r]["conv"] EXCEPT !.st = "closed"])
    /\ SetProm(r, "conv", Settle(prom[r]["conv"],
            ConvCloseResult(proc[r]["conv"].code, existsSync(pdfPath(src[r])),
                            pdfPath(src[r]), proc[r]["conv"].errorOutput)))
    /\ UNCHANGED <<fsVars, callVars>>

\* a conversion timeout that forgets process.kill()
ConvTimeoutNoKill(p) == [p EXCEPT !.timer = "fired"]

\* setTimeout(() => { process.kill(); reject(new Error('Conversion timeout...')); }, 30000)
ConvTimeoutProc(p) == [kill(p) EXCEPT !.timer = "fired"]

\* a conversion timeout that kills the child but does not reject
ConvTimeoutOnlyKills == Pending

ConvTimeoutResult == Rejected(Err("Timeout"))

ConvOnTimeout(r) ==
    /\ LoopIdle
    /\ TimerDue(r, "conv")
    /\ SetProc(r, "conv", ConvTimeoutProc(proc[r]["conv"]))
    /\ SetProm(r, "conv", Settle(prom[r]["conv"], ConvTimeoutResult))
    /\ UNCHANGED <<fsVars, callVars>>

\* convertToPDF settles as the promise around the conversion spawn does
ContConv(r) ==
    /\ pc[r] = "conv"
    /\ Awaited(prom[r]["conv"])
    /\ pdfResult' = [pdfResult EXCEPT ![r] = prom[r]["conv"]]
    /\ pc' = [pc EXCEPT ![r] = "pdfret"]
    /\ UNCHANGED <<fsVars, loaded, kind, src, proc, prom, result, posted, spawnLog, sessVars>>

(* -------------------------- convertToImages --------------------------- *)

\* the tokens of file names in the order of their strings' UTF-16 code units
TokenOrder == <<".pdf", ".png", ".pptx", "1", "deck", "other">>
Rank(t) == CHOOSE i \in 1..Len(TokenOrder) : TokenOrder[i] = t

\* a < b as strings
RECURSIVE StrLess(_, _)
StrLess(a, b) ==
    IF b = <<>> THEN FALSE
    ELSE IF a = <<>> THEN TRUE
    ELSE IF Head(a) = Head(b) THEN StrLess(Tail(a), Tail(b))
    ELSE Rank(Head(a)) < Rank(Head(b))

\* imageFiles.sort()
RECURSIVE sort(_)
sort(S) ==
    IF S = {} THEN <<>>
    ELSE LET m == CHOOSE x \in S : \A y \in S \ {x} : StrLess(x.name, y.name)
         IN <<m>> \o sort(S \ {m})

\* a filter that forgets the prefix
startsWithAny(name, prefix) == TRUE

\* file.startsWith(fileName)
RECURSIVE startsWith(_, _)
startsWith(name, prefix) ==
    IF prefix = <<>> THEN TRUE
    ELSE IF name = <<>> THEN FALSE
    ELSE Head(name) = Head(prefix) /\ startsWith(Tail(name), Tail(prefix))

\* file.endsWith('.png')
endsWith(name, ext) == name # <<>> /\ Last(name) = ext

\* fs.readdirSync(tempDir)
readdirSync == {p.name : p \in pngs} \cup {p.name : p \in {q \in PdfPaths : existsSync(q)}}

\* process.on('close', (code) => { ... }) of the image conversion
ImgCloseResult(code, dirOk, listing, prefix, errorOutput) ==
    IF code = 0
    THEN IF ~dirOk THEN Rejected(Err("ReadError"))
         ELSE LET imageFiles == {Path(tempDir, f) : f \in
                        {g \in listing : startsWith(g, prefix) /\ endsWith(g, ".png")}}
              IN IF Cardinality(imageFiles) > 0
                 THEN ResolvedList(sort(imageFiles))
                 ELSE Rejected(Err("NoOutputFiles"))
    ELSE Rejected(ErrExit("ImageNonZeroExit", code, errorOutput))

ImgOnData(r) ==
    /\ LoopIdle
    /\ proc[r]["img"].read < Len(proc[r]["img"].stderr)
    /\ SetProc(r, "img", OnData(proc[r]["img"]))
    /\ UNCHANGED <<fsVars, callVars, prom>>

\* process.on('error', ...) of the image conversion
ImgErrorResult == Rejected(Err("ImageSpawnFailure"))

ImgOnError(r) ==
    /\ LoopIdle
    /\ proc[r]["img"].st = "failed"
    /\ SetProc(r, "img", [proc[r]["img"] EXCEPT !.st = "errored", !.code = SpawnErrCode])
    /\ SetProm(r, "img", Settle(prom[r]["img"], ImgErrorResult))
    /\ UNCHANGED <<fsVars, callVars>>

ImgOnClose(r) ==
    /\ LoopIdle
    /\ CanClose(proc[r]["img"])
    /\ SetProc(r, "img", [proc[r]["img"] EXCEPT !.st = "closed"])
    /\ SetProm(r, "img", Settle(prom[r]["img"],
            ImgCloseResult(proc[r]["img"].code, dirExists, readdirSync,
                           fileName(src[r]), proc[r]["img"].errorOutput)))
    /\ UNCHANGED <<fsVars, callVars>>

\* an image timeout that forgets process.kill()
ImgTimeoutNoKill(p) == [p EXCEPT !.timer = "fired"]

\* setTimeout(() => { process.kill(); reject(new Error('Image conversion timeout.')); }, 30000)
ImgTimeoutProc(p) == [kill(p) EXCEPT !.timer = "fired"]
ImgTimeoutResult == Rejected(Err("ImageTimeout"))

ImgOnTimeout(r) ==
    /\ LoopIdle
    /\ TimerDue(r, "img")
    /\ SetProc(r, "img", ImgTimeoutProc(proc[r]["img"]))
    /\ SetProm(r, "img", Settle(prom[r]["img"], ImgTimeoutResult))
    /\ UNCHANGED <<fsVars, callVars>>

\* convertToImages settles as the promise around the image spawn does
ContImg(r) ==
    /\ pc[r] = "img"
    /\ Awaited(prom[r]["img"])
    /\ result' = [result EXCEPT ![r] = prom[r]["img"]]
    /\ pc' = [pc EXCEPT ![r] = "done"]
    /\ UNCHANGED <<fsVars, loaded, kind, src, proc, prom, pdfResult, posted, spawnLog, sessVars>>

(* ------------------------------ _loadPPT ------------------------------ *)

Returned == [k |-> "resolved"]

NotInstalledMsg == [command |-> "libreOfficeNotInstalled"]
ErrorMsg(t) == [command |-> "error", text |-> t]
LoadPDFMsg(p) == [command |-> "loadPDF", pdfUri |-> p]

\* _loadPDF without its fs.existsSync(pdfPath) check
loadPDFMessageNoCheck(pdf, pdfExists) == LoadPDFMsg(pdf)

\* _loadPDF: the message it posts
loadPDFMessage(pdf, pdfExists) ==
    IF ~pdfExists THEN ErrorMsg("PDF file was not created successfully.")
    ELSE LoadPDFMsg(pdf)

\* a load that trusts the probe of the first load of the session
loadProbeStale(r) == prom[1]["check"]

\* const converter = new LibreOfficeConverter();
\* const isInstalled = await converter.checkLibreOfficeInstallation();
\* the probe whose result load r decides on: its own
loadProbe(r) == prom[r]["check"]

\* the messages that end a load in the not-installed or failed state
Failing(msgs) == \E i \in 1..Len(msgs) : msgs[i].command # "loadPDF"

\* _loadPPT resumes after its own probe
ContCheck(r) ==
    /\ pc[r] = "check"
    /\ Awaited(prom[r]["check"])
    /\ IF ~isInstalled(loadProbe(r))
       THEN /\ posted' = [posted EXCEPT ![r] = Append(@, NotInstalledMsg)]
            /\ result' = [result EXCEPT ![r] = Returned]
            /\ pc' = [pc EXCEPT ![r] = "done"]
            /\ prompt' = TRUE
            /\ quiet' = TRUE
            /\ UNCHANGED <<proc, spawnLog>>
       ELSE /\ \E ok \in BOOLEAN : Spawn(r, "gate", spawn(ok))
            /\ pc' = [pc EXCEPT ![r] = "gate"]
            /\ UNCHANGED <<posted, result, prompt, quiet>>
    /\ UNCHANGED <<fsVars, loaded, kind, src, prom, pdfResult, cmd>>

\* _loadPPT without its try/catch: a failure of convertToPDF leaves the load
loadAfterPdfNoCatch(pdfRes, pdfExists) ==
    IF pdfRes.k = "rejected"
    THEN [msgs |-> <<>>, result |-> pdfRes]
    ELSE [msgs |-> <<loadPDFMessage(pdfRes.path, pdfExists)>>, result |-> Returned]

\* _loadPPT after `await converter.convertToPDF(pptPath)`: _loadPDF on success,
\* the catch block on failure; what it posts and how the load settles
loadAfterPdf(pdfRes, pdfExists) ==
    IF pdfRes.k = "rejected"
    THEN [msgs |-> <<ErrorMsg(pdfRes.e.type)>>, result |-> Returned]
    ELSE [msgs |-> <<loadPDFMessage(pdfRes.path, pdfExists)>>, result |-> Returned]

(* ------------------- the caller of convertToPDF resumes --------------- *)

ContPdfReturn(r) ==
    /\ pc[r] = "pdfret"
    /\ CASE kind[r] = "pdf" ->
              /\ result' = [result EXCEPT ![r] = pdfResult[r]]
              /\ pc' = [pc EXCEPT ![r] = "done"]
              /\ UNCHANGED <<proc, posted, spawnLog>>
         [] kind[r] = "images" ->
              IF pdfResult[r].k = "rejected"
              THEN /\ result' = [result EXCEPT ![r] = pdfResult[r]]
                   /\ pc' = [pc EXCEPT ![r] = "done"]
                   /\ UNCHANGED <<proc, posted, spawnLog>>
              ELSE /\ \E ok \in BOOLEAN : Spawn(r, "img", spawn(ok))
                   /\ pc' = [pc EXCEPT ![r] = "img"]
                   /\ UNCHANGED <<result, posted>>
         [] kind[r] = "load" ->
              LET out == loadAfterPdf(pdfResult[r],
                            pdfResult[r].k = "resolved" /\ existsSync(pdfResult[r].path))
              IN /\ posted' = [posted EXCEPT ![r] = @ \o out.msgs]
                 /\ result' = [result EXCEPT ![r] = out.result]
                 /\ pc' = [pc EXCEPT ![r] = "done"]
                 /\ UNCHANGED <<proc, spawnLog>>
    /\ quiet' = (quiet \/ Failing(posted'[r]))
    /\ UNCHANGED <<fsVars, loaded, kind, src, prom, pdfResult, cmd, prompt>>

(* ----------------------------- entry points --------------------------- *)

\* a call of convertToPDF, convertToImages or _loadPPT runs up to its first await
Start(r, k, p) ==
    /\ pc[r] = "idle"
    /\ kind' = [kind EXCEPT ![r] = k]
    /\ src' = [src EXCEPT ![r] = p]
    /\ LET s == IF k = "load" THEN "check" ELSE "gate"
       IN /\ \E ok \in BOOLEAN : Spawn(r, s, spawn(ok))
          /\ pc' = [pc EXCEPT ![r] = s]
    /\ UNCHANGED <<fsVars, loaded, prom, pdfResult, result, posted, sessVars>>

(* --------------------------- specification ---------------------------- *)

Next ==
    \/ Tick
    \/ \E p \in SpecSrc : TouchSource(p)
    \/ \E p \in PdfPaths : ExternalWritePdf(p)
    \/ \E p \in PdfPaths : RemovePdf(p)
    \/ \E r \in SpecReq, s \in Slots, c \in ExitCodes : ProcExit(r, s, c)
    \/ \E r \in SpecReq, s \in Slots, ch \in Chunks : ProcStderr(r, s, ch)
    \/ \E r \in SpecReq : ProcWritePdf(r)
    \/ \E r \in SpecReq, p \in PngPaths : ProcWritePng(r, p)
    \/ \E r \in SpecReq, k \in Kinds, p \in SpecSrc : Start(r, k, p)
    \/ \E r \in SpecReq, s \in ProbeSlots : ProbeOnError(r, s)
    \/ \E r \in SpecReq, s \in ProbeSlots : ProbeOnClose(r, s)
    \/ \E r \in SpecReq, s \in ProbeSlots : ProbeOnTimeout(r, s)
    \/ \E r \in SpecReq : ContCheck(r)
    \/ \E r \in SpecReq : ContGate(r)
    \/ \E r \in SpecReq : ConvOnData(r)
    \/ \E r \in SpecReq : ConvOnError(r)
    \/ \E r \in SpecReq : ConvOnClose(r)
    \/ \E r \in SpecReq : ConvOnTimeout(r)
    \/ \E r \in SpecReq : ContConv(r)
    \/ \E r \in SpecReq : ContPdfReturn(r)
    \/ \E r \in SpecReq : ImgOnData(r)
    \/ \E r \in SpecReq : ImgOnError(r)
    \/ \E r \in SpecReq : ImgOnClose(r)
    \/ \E r \in SpecReq : ImgOnTimeout(r)
    \/ \E r \in SpecReq : ContImg(r)

Spec == Init /\ [][Next]_vars

(* ---------------------- the preview session --------------------------- *)

\* document.uri.fsPath of the session
DocPath == Path("a", <<"deck", ".pptx">>)

Commands == {"ready", "retryLibreOfficeCheck"}

\* the webview posts 'ready' when its page has loaded, and 'retryLibreOfficeCheck'
\* when the button of the installation prompt is clicked
CanPost(c) == c = "ready" \/ prompt

\* webview.onDidReceiveMessage: 'ready' and 'retryLibreOfficeCheck' call
\* this._loadPPT(document.uri.fsPath, webviewPanel) without awaiting it; the call
\* runs up to `await converter.checkLibreOfficeInstallation()`.  (On 'ready'
\* _handleFileSelection also schedules a focus command of the host, which
\* touches nothing of this state.)
Receive(r, c) ==
    /\ LoopIdle
    /\ CanPost(c)
    /\ pc[r] = "idle"
    /\ \A q \in Req : q < r => pc[q] # "idle"
    /\ kind' = [kind EXCEPT ![r] = "load"]
    /\ src' = [src EXCEPT ![r] = DocPath]
    /\ cmd' = [cmd EXCEPT ![r] = c]
    /\ \E ok \in BOOLEAN : Spawn(r, "check", spawn(ok))
    /\ pc' = [pc EXCEPT ![r] = "check"]
    /\ prompt' = FALSE
    /\ quiet' = FALSE
    /\ UNCHANGED <<fsVars, loaded, prom, pdfResult, result, posted>>

SessionSlots == {"check", "gate", "conv"}

\* the steps of a session with up to two loads; the clock of the file system
\* stands still and the children write nothing to their standard error
SessionNext ==
    \/ \E r \in Req, c \in Commands : Receive(r, c)
    \/ \E r \in Req, s \in SessionSlots, c \in ExitCodes : ProcExit(r, s, c)
    \/ \E r \in Req : ProcWritePdf(r)
    \/ \E r \in Req, s \in ProbeSlots : ProbeOnError(r, s)
    \/ \E r \in Req, s \in ProbeSlots : ProbeOnClose(r, s)
    \/ \E r \in Req, s \in ProbeSlots : ProbeOnTimeout(r, s)
    \/ \E r \in Req : ContCheck(r)
    \/ \E r \in Req : ContGate(r)
    \/ \E r \in Req : ConvOnError(r)
    \/ \E r \in Req : ConvOnClose(r)
    \/ \E r \in Req : ConvOnTimeout(r)
    \/ \E r \in Req : ContConv(r)
    \/ \E r \in Req : ContPdfReturn(r)

SessionSpec == Init /\ [][SessionNext]_vars

\* The event loop of the extension host: a timer that is due fires (5000 ms for
\* a probe, 30000 ms for the conversion), and the continuation of an await runs
\* once the awaited promise has settled.  Nothing is assumed of the children:
\* a child may never exit.
Fairness ==
    /\ \A r \in Req, s \in ProbeSlots : WF_vars(ProbeOnTimeout(r, s))
    /\ \A r \in Req : WF_vars(ConvOnTimeout(r))
    /\ \A r \in Req : WF_vars(ContCheck(r))
    /\ \A r \in Req : WF_vars(ContGate(r))
    /\ \A r \in Req : WF_vars(ContConv(r))
    /\ \A r \in Req : WF_vars(ContPdfReturn(r))

LiveSpec == SessionSpec /\ Fairness

(* ------------------- previews that share the scratch directory -------- *)

\* two calls of convertToPDF, each on one of two presentations that have the
\* same base name in different directories; both presentations exist, the
\* scratch directory does not yet, and the making of every PDF is recorded
CacheInit ==
    /\ now = 0
    /\ files = [p \in FilePaths |-> IF p \in SrcPaths THEN 0 ELSE NoFile]
    /\ dirExists = FALSE
    /\ pngs = {}
    /\ kind = [r \in Req |-> "none"]
    /\ src = [r \in Req |-> NoSrc]
    /\ pc = [r \in Req |-> "idle"]
    /\ proc = [r \in Req |-> [s \in Slots |-> NoProc]]
    /\ prom = [r \in Req |-> [s \in Slots |-> Pending]]
    /\ pdfResult = [r \in Req |-> Pending]
    /\ result = [r \in Req |-> Pending]
    /\ posted = [r \in Req |-> <<>>]
    /\ spawnLog = [r \in Req |-> <<>>]
    /\ cmd = [r \in Req |-> "none"]
    /\ prompt = FALSE
    /\ quiet = FALSE
    /\ loaded = [r \in Req |-> NoFile]
    /\ origin = [p \in PdfPaths |-> NoOrigin]

\* the calls are numbered in the order in which they are made
StartNext(r, p) ==
    /\ \A q \in Req : q < r => pc[q] # "idle"
    /\ Start(r, "pdf", p)

CacheSlots == {"gate", "conv"}

\* the steps of the two calls up to the moment their timers are due: every
\* child ends, or fails to start, within its time
CacheNext ==
    \/ Tick
    \/ \E p \in SrcPaths : TouchSource(p)
    \/ \E r \in Req, s \in CacheSlots, c \in ExitCodes : ProcExit(r, s, c)
    \/ \E r \in Req : ProcWritePdf(r)
    \/ \E r \in Req, p \in SrcPaths : StartNext(r, p)
    \/ \E r \in Req : ProbeOnError(r, "gate")
    \/ \E r \in Req : ProbeOnClose(r, "gate")
    \/ \E r \in Req : ContGate(r)
    \/ \E r \in Req : ConvOnError(r)
    \/ \E r \in Req : ConvOnClose(r)
    \/ \E r \in Req : ContConv(r)
    \/ \E r \in Req : ContPdfReturn(r)

CacheSpec == CacheInit /\ [][CacheNext]_vars

(* ------------------------------ claims -------------------------------- *)

RECURSIVE Count(_, _)
\* how many times s occurs in a spawn log
Count(log, s) ==
    IF log = <<>> THEN 0
    ELSE (IF Head(log) = s THEN 1 ELSE 0) + Count(Tail(log), s)

\* the steps as the claims name them
GateStep(r) == pc[r] = "gate" /\ pc'[r] # "gate"
ErrorStep(r, s) == proc[r][s].st = "failed" /\ proc'[r][s].st = "errored"
CloseStep(r, s) == proc[r][s].st \in {"exited", "errored"} /\ proc'[r][s].st = "closed"
TimeoutStep(r, s) == proc[r][s].timer = "pending" /\ proc'[r][s].timer = "fired"
IsErr(p, t) == p.k = "rejected" /\ p.e.type = t
IsPath(p, pdf) == p.k = "resolved" /\ p.path = pdf
IsBool(p, b) == p.k = "resolved" /\ p.b = b
DecidedPdf(r) == pc[r] \in {"conv", "pdfret", "img", "done"}

\* C1: when the probe has succeeded and the PDF at the derived path is strictly
\* newer than the source, convertToPDF returns that path and the call spawns no
\* conversion process, then or later.
C1_CacheHit ==
    [][\A r \in Req :
        LET pdf == pdfPath(src[r]) IN
        /\ ( /\ GateStep(r)
             /\ IsBool(prom[r]["gate"], TRUE)
             /\ existsSync(pdf) /\ existsSync(src[r])
             /\ files[pdf] > files[src[r]] )
           => /\ IsPath(pdfResult'[r], pdf)
              /\ Count(spawnLog'[r], "conv") = 0
        /\ (DecidedPdf(r) /\ Count(spawnLog[r], "conv") = 0)
           => Count(spawnLog'[r], "conv") = 0
    ]_vars

\* a call that returned the cached path without any conversion process
C1_Witness ==
    \E r \in Req : /\ pc[r] = "done" /\ kind[r] = "pdf"
                   /\ IsPath(result[r], pdfPath(src[r]))
                   /\ Count(spawnLog[r], "conv") = 0
                   /\ files[src[r]] # NoFile

\* C2: when the probe has succeeded and the PDF is absent, or not strictly newer
\* than the source, the call spawns exactly one conversion process: one at the
\* check and none afterwards.
C2_MissSpawnsOnce ==
    [][\A r \in Req :
        LET pdf == pdfPath(src[r]) IN
        /\ ( /\ GateStep(r)
             /\ IsBool(prom[r]["gate"], TRUE)
             /\ \/ ~existsSync(pdf)
                \/ existsSync(src[r]) /\ ~(files[pdf] > files[src[r]]) )
           => /\ Count(spawnLog[r], "conv") = 0
              /\ Count(spawnLog'[r], "conv") = 1
        /\ (DecidedPdf(r) /\ Count(spawnLog[r], "conv") = 1)
           => Count(spawnLog'[r], "conv") = 1
    ]_vars

\* a call awaiting its one conversion, the PDF being exactly as old as the source
C2_Witness ==
    \E r \in Req : /\ pc[r] = "conv"
                   /\ Count(spawnLog[r], "conv") = 1
                   /\ existsSync(pdfPath(src[r])) /\ existsSync(src[r])
                   /\ files[pdfPath(src[r])] = files[src[r]]

\* C3: when the probe resolves false, convertToPDF fails with NotInstalled and the
\* call never spawns a conversion process, whatever the cache holds.
C3_NotInstalled ==
    [][\A r \in Req :
        /\ (GateStep(r) /\ IsBool(prom[r]["gate"], FALSE))
           => /\ IsErr(pdfResult'[r], "NotInstalled")
              /\ Count(spawnLog'[r], "conv") = 0
        /\ IsErr(pdfResult[r], "NotInstalled")
           => /\ pdfResult'[r] = pdfResult[r]
              /\ Count(spawnLog'[r], "conv") = 0
    ]_vars

\* NotInstalled although a valid cached PDF is there
C3_Witness ==
    \E r \in Req : /\ IsErr(pdfResult[r], "NotInstalled")
                   /\ existsSync(pdfPath(src[r])) /\ existsSync(src[r])
                   /\ files[pdfPath(src[r])] > files[src[r]]

\* C4: when the 30-second timer of a conversion (PDF or image) fires while the
\* child is running, the promise of the conversion is rejected with the timeout
\* error, the child is signalled, and no child of the call is left running
\* without a termination signal.
C4_ConvTimeoutKills ==
    [][\A r \in Req :
        /\ (TimeoutStep(r, "conv") /\ proc[r]["conv"].st = "running")
           => /\ IsErr(prom'[r]["conv"], "Timeout")
              /\ proc'[r]["conv"].sig
              /\ \A t \in Slots : proc'[r][t].st = "running" => proc'[r][t].sig
        /\ (TimeoutStep(r, "img") /\ proc[r]["img"].st = "running")
           => /\ IsErr(prom'[r]["img"], "ImageTimeout")
              /\ proc'[r]["img"].sig
              /\ \A t \in Slots : proc'[r][t].st = "running" => proc'[r][t].sig
    ]_vars

\* convertToPDF has failed with Timeout and its child has been signalled
C4_Witness ==
    \E r \in Req : /\ IsErr(pdfResult[r], "Timeout")
                   /\ proc[r]["conv"].sig
                   /\ proc[r]["conv"].timer = "fired"

\* C5: when the conversion child closes with code zero and no file is at the
\* output path, the conversion is rejected with OutputMissing; the rejection
\* stands, convertToPDF does not succeed and no second conversion is spawned.
C5_OutputMissing ==
    [][\A r \in Req :
        /\ ( /\ CloseStep(r, "conv") /\ proc[r]["conv"].st = "exited"
             /\ proc[r]["conv"].code = 0
             /\ prom[r]["conv"].k = "pending"
             /\ ~existsSync(pdfPath(src[r])) )
           => IsErr(prom'[r]["conv"], "OutputMissing")
        /\ IsErr(prom[r]["conv"], "OutputMissing")
           => /\ prom'[r]["conv"] = prom[r]["conv"]
              /\ pdfResult'[r].k # "resolved"
              /\ Count(spawnLog'[r], "conv") = 1
    ]_vars

\* convertToPDF has failed with OutputMissing
C5_Witness ==
    \E r \in Req : /\ IsErr(pdfResult[r], "OutputMissing")
                   /\ proc[r]["conv"].code = 0
                   /\ pc[r] = "done"

\* C6: when the conversion child closes with a non-zero code before any other
\* event has settled the call, the conversion is rejected with NonZeroExit
\* carrying that code and everything the child wrote to its standard error,
\* also when a file is at the output path; convertToPDF then returns no path.
C6_NonZeroExit ==
    [][\A r \in Req :
        /\ ( /\ CloseStep(r, "conv") /\ proc[r]["conv"].st = "exited"
             /\ proc[r]["conv"].code # 0
             /\ prom[r]["conv"].k = "pending" )
           => prom'[r]["conv"] =
                Rejected(ErrExit("NonZeroExit", proc[r]["conv"].code,
                                 proc[r]["conv"].stderr))
        /\ IsErr(prom[r]["conv"], "NonZeroExit")
           => /\ prom'[r]["conv"] = prom[r]["conv"]
              /\ pdfResult'[r].k # "resolved"
    ]_vars

\* NonZeroExit with code 1 and two chunks of text while the PDF exists
C6_Witness ==
    \E r \in Req : /\ IsErr(pdfResult[r], "NonZeroExit")
                   /\ pdfResult[r].e.code = 1
                   /\ Len(pdfResult[r].e.text) = 2
                   /\ existsSync(pdfPath(src[r]))

\* C7: the probe never rejects; it resolves true exactly when 'close' with code
\* zero is the first of its events, false when 'error', 'close' with another
\* code or the timer is the first, and no later event changes the result.
C7_ProbeResult ==
    [][\A r \in Req, s \in ProbeSlots :
        LET p == prom[r][s]
            q == prom'[r][s]
            zero == proc[r][s].st = "exited" /\ proc[r][s].code = 0
        IN /\ q.k # "rejected"
           /\ p.k # "pending" => q = p
           /\ (p.k = "pending" /\ CloseStep(r, s) /\ zero) => IsBool(q, TRUE)
           /\ ( /\ p.k = "pending"
                /\ \/ ErrorStep(r, s)
                   \/ TimeoutStep(r, s)
                   \/ CloseStep(r, s) /\ ~zero )
              => IsBool(q, FALSE)
           /\ ( /\ p.k = "pending"
                /\ ~ErrorStep(r, s) /\ ~TimeoutStep(r, s) /\ ~CloseStep(r, s) )
              => q = p
    ]_vars

\* a probe that resolved true and whose timer fired afterwards
C7_Witness ==
    \E r \in Req, s \in ProbeSlots :
        IsBool(prom[r][s], TRUE) /\ proc[r][s].timer = "fired"

\* C8: when the 5-second timer fires while the probe child is running, the probe
\* resolves false and the child is signalled: no probe child is left running
\* without a termination signal once its timer has fired.
C8_ProbeTimeoutKills ==
    [][\A r \in Req, s \in ProbeSlots :
        /\ (TimeoutStep(r, s) /\ proc[r][s].st = "running")
           => IsBool(prom'[r][s], FALSE) /\ proc'[r][s].sig
        /\ (proc'[r][s].timer = "fired" /\ proc'[r][s].st = "running")
           => proc'[r][s].sig
    ]_vars

\* a probe that timed out with its child running
C8_Witness ==
    \E r \in Req, s \in ProbeSlots :
        /\ proc[r][s].timer = "fired" /\ proc[r][s].st = "running"
        /\ IsBool(prom[r][s], FALSE)

\* C9: whenever a call spawns a conversion process, the probe of convertToPDF
\* has been spawned before it and every probe of the call has settled.
C9_ProbeBeforeConversion ==
    [][\A r \in Req :
        ( /\ Len(spawnLog'[r]) = Len(spawnLog[r]) + 1
          /\ Last(spawnLog'[r]) \in {"conv", "img"} )
        => /\ Count(spawnLog[r], "gate") = 1
           /\ \A s \in ProbeSlots :
                Count(spawnLog[r], s) > 0 => prom[r][s].k # "pending"
    ]_vars

\* a load that ran both of its probes and then spawned the conversion
C9_Witness ==
    \E r \in Req : spawnLog[r] = <<"check", "gate", "conv">>

\* C10: the promise of the conversion takes the outcome of the first of 'error',
\* 'close' and the timer; once settled it never changes, and convertToPDF
\* settles once, with that outcome.
C10_FirstEventWins ==
    [][\A r \in Req :
        LET p == prom[r]["conv"]
            q == prom'[r]["conv"]
        IN /\ p.k # "pending" => q = p
           /\ (p.k = "pending" /\ ErrorStep(r, "conv")) => IsErr(q, "SpawnFailure")
           /\ (p.k = "pending" /\ TimeoutStep(r, "conv")) => IsErr(q, "Timeout")
           /\ (p.k = "pending" /\ CloseStep(r, "conv"))
              => \/ q.k = "resolved"
                 \/ IsErr(q, "OutputMissing")
                 \/ IsErr(q, "NonZeroExit")
           /\ ( /\ p.k = "pending" /\ ~ErrorStep(r, "conv")
                /\ ~TimeoutStep(r, "conv") /\ ~CloseStep(r, "conv") )
              => q = p
           /\ pdfResult[r].k # "pending" => pdfResult'[r] = pdfResult[r]
           /\ (pc[r] = "conv" /\ pc'[r] # "conv") => pdfResult'[r] = p
    ]_vars

\* a timeout that won, followed by the close of the killed child
C10_Witness ==
    \E r \in Req : /\ IsErr(pdfResult[r], "Timeout")
                   /\ proc[r]["conv"].st = "closed"

\* C11: a load whose pipeline outcome is NotInstalled, by its own probe or by
\* the probe inside convertToPDF, ends with the one message
\* libreOfficeNotInstalled and no error message.
C11_RemediationOnNotInstalled ==
    \A r \in Req :
        ( /\ kind[r] = "load" /\ pc[r] = "done"
          /\ \/ IsBool(prom[r]["check"], FALSE)
             \/ IsErr(pdfResult[r], "NotInstalled") )
        => posted[r] = <<NotInstalledMsg>>

\* C12: every 'ready' and 'retryLibreOfficeCheck' starts a load that spawns a
\* new probe, and the load decides on the result of that probe: true takes it
\* on to convertToPDF, false makes it post libreOfficeNotInstalled.
C12_RetryProbesAfresh ==
    [][\A r \in Req :
        /\ (pc[r] = "idle" /\ pc'[r] # "idle")
           => /\ spawnLog'[r] = <<"check">>
              /\ proc'[r]["check"].st \in {"running", "failed"}
              /\ prom'[r]["check"].k = "pending"
        /\ (pc[r] = "check" /\ pc'[r] # "check")
           => /\ prom[r]["check"].k = "resolved"
              /\ prom[r]["check"].b
                 => pc'[r] = "gate" /\ spawnLog'[r] = <<"check", "gate">>
              /\ ~prom[r]["check"].b
                 => pc'[r] = "done" /\ posted'[r] = <<NotInstalledMsg>>
    ]_vars

\* a retry, after a load that found the converter missing, reaches the conversion
C12_Witness ==
    /\ posted[1] = <<NotInstalledMsg>>
    /\ cmd[2] = "retryLibreOfficeCheck"
    /\ Count(spawnLog[2], "conv") = 1

InFlight(r) == pc[r] \notin {"idle", "done"}

\* C13: at most one load of the session is in flight at any time.
C13_OneLoadInFlight ==
    \A r1, r2 \in Req : (InFlight(r1) /\ InFlight(r2)) => r1 = r2

\* C14: a load never settles as rejected; every failure of convertToPDF is
\* caught and posted as an error message.
C14_FailuresCaught ==
    [][\A r \in Req :
        kind[r] = "load" =>
          /\ result'[r].k # "rejected"
          /\ (pc[r] = "pdfret" /\ pc'[r] # "pdfret" /\ pdfResult[r].k = "rejected")
             => /\ posted'[r] = <<ErrorMsg(pdfResult[r].e.type)>>
                /\ result'[r] = Returned
                /\ pc'[r] = "done"
    ]_vars

\* a load that has caught the timeout of its conversion
C14_Witness ==
    \E r \in Req : /\ kind[r] = "load" /\ pc[r] = "done"
                   /\ posted[r] = <<ErrorMsg("Timeout")>>
                   /\ result[r] = Returned

\* C15: once a load has ended not-installed or failed, nothing is spawned in
\* the session until a message comes in: every later spawn is the first spawn
\* of a load that a message starts.
C15_NoSpawnWhileQuiet ==
    [][\A r \in Req :
        (quiet /\ spawnLog'[r] # spawnLog[r]) => pc[r] = "idle"
    ]_vars

\* name starts with the tokens of prefix
HasPrefix(name, prefix) ==
    /\ Len(name) >= Len(prefix)
    /\ SubSeq(name, 1, Len(prefix)) = prefix

\* the files of the scratch directory
ScratchFiles == pngs \cup {q \in PdfPaths : existsSync(q)}

\* C16: on a clean exit of the image conversion, convertToImages resolves to
\* the files of the scratch directory that start with the source's base name
\* and end with .png, each once, in ascending order of their names; when there
\* is none it is rejected with NoOutputFiles.
C16_ImageListing ==
    [][\A r \in Req :
        ( /\ CloseStep(r, "img") /\ proc[r]["img"].st = "exited"
          /\ proc[r]["img"].code = 0
          /\ prom[r]["img"].k = "pending" )
        => LET want == {p \in ScratchFiles :
                          /\ HasPrefix(p.name, fileName(src[r]))
                          /\ Last(p.name) = ".png"}
               q == prom'[r]["img"]
           IN IF want = {}
              THEN IsErr(q, "NoOutputFiles")
              ELSE /\ q.k = "resolved"
                   /\ {q.list[i] : i \in 1..Len(q.list)} = want
                   /\ Len(q.list) = Cardinality(want)
                   /\ \A i \in 1..(Len(q.list) - 1) :
                        StrLess(q.list[i].name, q.list[i + 1].name)
    ]_vars

\* two images returned in order while another file's image lies beside them
C16_Witness ==
    \E r \in Req : /\ result[r].k = "resolved" /\ kind[r] = "images"
                   /\ result[r].list = <<Path(tempDir, <<"deck", ".png">>),
                                         Path(tempDir, <<"deck", "1", ".png">>)>>
                   /\ Path(tempDir, <<"other", ".png">>) \in pngs

\* a load that was served from the cache: it posted loadPDF without a conversion
FromCache(r) ==
    /\ kind[r] = "load" /\ pc[r] = "done"
    /\ Failing(posted[r]) = FALSE /\ posted[r] # <<>>
    /\ Count(spawnLog[r], "conv") = 0

\* C17 as stated: a preview served from the cache has spawned no process at all.
C17_NoProcessOnCacheHit ==
    \A r \in Req : FromCache(r) => spawnLog[r] = <<>>

\* C17 amended: a preview whose two probes succeed and that finds a valid
\* cached PDF spawns no conversion process; the two probes, of _loadPPT and of
\* convertToPDF, are all it spawns.
C17_CacheHitOnlyProbes ==
    [][\A r \in Req :
        LET pdf == pdfPath(src[r]) IN
        /\ ( /\ kind[r] = "load" /\ GateStep(r)
             /\ IsBool(prom[r]["gate"], TRUE)
             /\ existsSync(pdf) /\ existsSync(src[r])
             /\ files[pdf] > files[src[r]] )
           => /\ spawnLog'[r] = <<"check", "gate">>
              /\ IsPath(pdfResult'[r], pdf)
        /\ ( /\ kind[r] = "load" /\ DecidedPdf(r)
             /\ Count(spawnLog[r], "conv") = 0 )
           => spawnLog'[r] = spawnLog[r]
    ]_vars

\* a preview served from the cache, with its two probes
C17_Witness ==
    \E r \in Req : FromCache(r) /\ spawnLog[r] = <<"check", "gate">>

\* C18: a timer that fires after its call has settled by 'close' or 'error'
\* changes no promise and signals no process; a 'close' that comes after the
\* timer has fired changes no promise.
C18_LateEventsInert ==
    [][\A r \in Req, s \in Slots :
        /\ (TimeoutStep(r, s) /\ proc[r][s].st \in {"closed", "errored"})
           => /\ prom'[r][s] = prom[r][s]
              /\ \A t \in Slots : proc'[r][t].sig = proc[r][t].sig
        /\ (CloseStep(r, s) /\ proc[r][s].timer = "fired")
           => prom'[r][s] = prom[r][s]
    ]_vars

\* the conversion succeeded, its timer fired later, and nothing was signalled
C18_Witness ==
    \E r \in Req : /\ IsPath(pdfResult[r], pdfPath(src[r]))
                   /\ proc[r]["conv"].st = "closed"
                   /\ proc[r]["conv"].timer = "fired"
                   /\ ~proc[r]["conv"].sig

\* the settlement q of a spawn in slot s reports a failure
Failure(s, q) ==
    \/ q.k = "rejected"
    \/ s \in ProbeSlots /\ q.k = "resolved" /\ ~q.b

\* C19: when a probe or a conversion reports a failure, and when convertToPDF
\* fails, no child of the call is running without a termination signal.
C19_NoChildLeftOnFailure ==
    [][\A r \in Req :
        ( \/ \E s \in Slots : prom[r][s].k = "pending" /\ Failure(s, prom'[r][s])
          \/ pdfResult[r].k = "pending" /\ pdfResult'[r].k = "rejected" )
        => \A t \in Slots : proc'[r][t].st = "running" => proc'[r][t].sig
    ]_vars

\* the image conversion timed out and its child was signalled
C19_Witness ==
    \E r \in Req : /\ IsErr(result[r], "ImageTimeout")
                   /\ proc[r]["img"].sig

\* C20: loadPDF is posted only as the first message of a load whose two probes
\* resolved true and whose convertToPDF returned a path, it carries that path,
\* and the file is there when it is posted.
C20_LoadPDFOnlyOnSuccess ==
    [][\A r \in Req :
        ( /\ Len(posted'[r]) > Len(posted[r])
          /\ Last(posted'[r]).command = "loadPDF" )
        => /\ posted[r] = <<>>
           /\ IsBool(prom[r]["check"], TRUE)
           /\ IsBool(prom[r]["gate"], TRUE)
           /\ pdfResult[r].k = "resolved"
           /\ Last(posted'[r]).pdfUri = pdfResult[r].path
           /\ files'[pdfResult[r].path] # NoFile
    ]_vars

\* loadPDF posted after a conversion of the load
C20_Witness ==
    \E r \in Req : /\ kind[r] = "load"
                   /\ posted[r] = <<LoadPDFMsg(pdfPath(src[r]))>>
                   /\ Count(spawnLog[r], "conv") = 1

\* C21: every load of the session ends, and when it has ended it has posted
\* exactly one message (libreOfficeNotInstalled, loadPDF or error); no load
\* ever has posted two.
C21_LoadEndsWithOneMessage ==
    /\ [](\A r \in Req : /\ Len(posted[r]) <= 1
                         /\ pc[r] = "done" => Len(posted[r]) = 1
                         /\ \A i \in 1..Len(posted[r]) :
                              posted[r][i].command \in
                                {"libreOfficeNotInstalled", "loadPDF", "error"})
    /\ \A r \in Req : (pc[r] # "idle") ~> (pc[r] = "done" /\ Len(posted[r]) = 1)

\* a retried load whose conversion never exited has ended by the timeout
C21_Witness ==
    /\ cmd[2] = "retryLibreOfficeCheck"
    /\ pc[2] = "done"
    /\ posted[2] = <<ErrorMsg("Timeout")>>
    /\ proc[2]["conv"].st = "running"

\* C22: when convertToPDF settles with a path, from the cache or after a
\* conversion, the PDF of that path was made from the call's own source file,
\* in the version the source file has at that moment.
C22_ReturnedPdfIsCurrent ==
    [][\A r \in Req :
        (pdfResult[r].k = "pending" /\ pdfResult'[r].k = "resolved")
        => origin'[pdfResult'[r].path] = [src |-> src[r], ver |-> files'[src[r]]]
    ]_vars

====
